---- MODULE Spec2Model ----
(***************************************************************************)
(* Model of telegram_scraping.py: the rate-limited invoker, the paginated  *)
(* fetcher, the media downloader, the live monitor, the exporter and the   *)
(* channel orchestrator, as one sequential state machine.  The program is  *)
(* a single cooperative task, so the state is one program counter `pc`     *)
(* plus one frame (a record of locals) per function; a step is the code    *)
(* between two suspension points (await).  A frame is set at the call and  *)
(* discarded when the caller resumes; the frame of the function a          *)
(* specification calls on its own stays as the function left it.           *)
(***************************************************************************)
EXTENDS Integers, Sequences, FiniteSets, TLC

VARIABLES
    pc,        \* the current position of the single task
    ret,       \* what the call that last returned gave its caller
    faults,    \* faults the remote may still inject (negative: unlimited)
    world,     \* the remote side: history size per channel, failing senders
    input,     \* the inputs of the run: channel list, options, call arguments
    rlo,       \* frame of rate_limited_operation
    scr,       \* frame of scrape_channel_messages
    srch,      \* frame of search_messages
    dl,        \* frame of download_media_from_channel
    mon,       \* frame of monitor_channel
    info,      \* frame of get_channel_info
    proc,      \* frame of process_channel
    mn,        \* frame of main
    handlers,  \* the event handlers registered with the client
    monlog,    \* the new-message lines the handlers have logged
    artifacts, \* the files under output/: file name -> number of data rows
    clock      \* the wall clock, in seconds

vars == <<pc, ret, faults, world, input, rlo, scr, srch, dl, mon, info, proc,
          mn, handlers, monlog, artifacts, clock>>

\* What the code of one function leaves alone.
effects == <<handlers, monlog, artifacts, clock>>
outsideRlo == <<world, input, scr, srch, dl, mon, info, proc, mn, effects>>
outsideScr == <<faults, world, input, srch, dl, mon, info, proc, mn, effects>>
outsideInfo == <<faults, world, input, scr, srch, dl, mon, proc, mn, effects>>
outsideSrch == <<world, input, scr, dl, mon, info, proc, mn, effects>>
outsideDl == <<faults, world, input, scr, srch, mon, info, proc, mn, effects>>
outsideMon ==
    <<faults, world, input, scr, srch, dl, info, proc, mn, artifacts, clock>>
outsideProc == <<faults, world, input, mn, handlers, monlog>>
outsideMain == <<faults, world, input, handlers, monlog>>
outsideExport ==
    <<faults, world, rlo, scr, srch, dl, mon, info, proc, mn, handlers,
      monlog>>

----------------------------------------------------------------------------
(* Bounds and enumerated inputs                                            *)

\* faults (flood-wait, server error, other exception) the remote injects
\* in one run of main
MaxFaults == 6

\* e.seconds of a FloodWaitError, when one function is called on its own
\* and in a run of the whole program
FloodSeconds == {1, 3}
MainFloodSeconds == {3}

\* channel handles as the list file gives them, one character per element
Handles == {<<"a">>, <<"@", "b">>}

\* the usernames the handles stand for
Usernames == {<<"a">>, <<"b">>}

\* number of messages in a channel's history (ids M, M-1, ..., 1)
HistorySizes == {0, 30, 100, 250}

\* `limit` arguments of scrape_channel_messages
ScrapeLimits == {0, 50, 100, 150}

\* the sets of users whose lookup by id fails
BadSenderSets == {{}, {1}}

\* the last second the wall clock reaches
MaxClock == 1

\* calls of export_data when it is called on its own
MaxExports == 3

\* new-message lines the handlers log in one run
MaxEvents == 2

\* the chats new messages arrive in
Chats == Usernames

\* `format` arguments of export_data
Formats == {"csv", "CSV", "excel", "txt"}

----------------------------------------------------------------------------
(* rate_limited_operation                                                  *)

\* one attempt more
max_retries_long == 5 + 1

\* an off-by-one retry ceiling
max_retries_short == 5 - 1

max_retries == 5

base_delay == 2

RECURSIVE Pow2(_)
Pow2(n) == IF n = 0 THEN 1 ELSE 2 * Pow2(n - 1)

\* a delay that does not grow
delay_flat(retry) == base_delay

\* line 113: delay = base_delay * (2 ** retry)
delay(retry) == base_delay * Pow2(retry)

\* sleeping the base delay instead of the seconds the remote asked for
wait_time_base(seconds) == base_delay

\* line 109: wait_time = e.seconds
wait_time(seconds) == seconds

\* What `return x` / `raise e` hands to the caller.
\* (values, arguments and exceptions are all records, so that any two can
\* be compared)
Nothing == [nothing |-> TRUE]
Value(v) == [kind |-> "value", val |-> v]
Raise(e) == [kind |-> "raise", val |-> [error |-> e]]
Null == [kind |-> "null", val |-> Nothing]
NoRet == [kind |-> "none", val |-> Nothing]

\* A page of messages as the remote returns it, and a DataFrame of records.
Page(messages) == [messages |-> messages]
DataFrame(rows) == [rows |-> rows]

Min(a, b) == IF a < b THEN a ELSE b

\* channel_username.startswith('@') / channel_username[1:]
StripAt(h) == IF Len(h) > 0 /\ h[1] = "@" THEN Tail(h) ELSE h

\* An entity of the remote, and Python's None where an entity is expected.
Entity(username) == [ok |-> TRUE, username |-> username]
NoEntity == [ok |-> FALSE, username |-> <<>>]

\* The remote's messages: the message with id i of any channel.
SenderOf(id) == id % 3
HasMedia(id) == id % 2 = 0

\* GetHistoryRequest(peer, offset_id, limit): the `limit` newest messages
\* older than offset_id (offset_id = 0: the newest), newest first.
GetHistory(M, offset_id, limit) ==
    LET start == IF offset_id = 0 THEN M ELSE Min(M, offset_id - 1)
        n == IF limit < 0 THEN 0 ELSE Min(limit, start)
    IN  Page([i \in 1..n |-> start - i + 1])

\* The values a remote operation can answer with when it succeeds.
RemoteValues(op, arg) ==
    CASE op = "get_entity" -> {Entity(arg.username)}
      [] op = "GetHistoryRequest" ->
            {GetHistory(world.history[arg.peer.username], arg.offset_id,
                        arg.limit)}
      [] op = "GetFullChannelRequest" -> {[participants_count |-> 10]}
      [] OTHER -> {[result |-> "ok"]}

\* A request whose peer is None fails in the client, before it is sent:
\* the peer cannot be cast to an input peer (TypeError).
LocalErrors(op, arg) ==
    CASE op \in {"GetHistoryRequest", "GetFullChannelRequest"} ->
            IF arg.peer.ok THEN {} ELSE {"TypeError"}
      [] OTHER -> {}

Sent(op, arg) == LocalErrors(op, arg) = {}

\* The exceptions, other than flood-wait and server/timeout errors, that a
\* remote operation can raise.
RemoteErrors(op, arg) ==
    CASE op = "get_entity" -> {"UsernameNotOccupiedError", "RPCError"}
      [] OTHER -> {"RPCError"}

\* The remote may inject a fault as long as its allowance lasts.
FaultOK == faults # 0
Spend == IF faults > 0 THEN faults - 1 ELSE faults

\* The frame at entry: the loop variable, the calls made and the sleeps done.
RloInvoke(op, arg, caller) ==
    [op |-> op, arg |-> arg, retry |-> 0, calls |-> 0, sleeps |-> <<>>,
     result |-> NoRet, caller |-> caller]

RloIdle == RloInvoke("", Nothing, "halt")

\* line 107: the operation is called and answers; its value is returned.
RloReturn ==
    /\ pc = "rlo"
    /\ rlo.retry < max_retries
    /\ Sent(rlo.op, rlo.arg)
    /\ \E v \in RemoteValues(rlo.op, rlo.arg) :
        /\ ret' = Value(v)
        /\ pc' = rlo.caller
        /\ rlo' = [rlo EXCEPT !.calls = @ + 1, !.result = Value(v)]
    /\ UNCHANGED <<faults, outsideRlo>>

\* lines 108-111: FloodWaitError: sleep e.seconds, go to the next iteration.
RloFloodWait ==
    /\ pc = "rlo"
    /\ rlo.retry < max_retries
    /\ Sent(rlo.op, rlo.arg)
    /\ FaultOK
    /\ \E n \in world.flood :
        rlo' = [rlo EXCEPT !.calls = @ + 1, !.retry = @ + 1,
                           !.sleeps = Append(@, [sig |-> "flood", n |-> n,
                                                 secs |-> wait_time(n)])]
    /\ faults' = Spend
    /\ UNCHANGED <<pc, ret, outsideRlo>>

\* lines 112-115: ServerError / TimedOutError: sleep base_delay * 2 ** retry,
\* go to the next iteration.
RloServerError ==
    /\ pc = "rlo"
    /\ rlo.retry < max_retries
    /\ Sent(rlo.op, rlo.arg)
    /\ FaultOK
    /\ rlo' = [rlo EXCEPT !.calls = @ + 1, !.retry = @ + 1,
                          !.sleeps = Append(@, [sig |-> "transient",
                                                n |-> rlo.retry,
                                                secs |-> delay(rlo.retry)])]
    /\ faults' = Spend
    /\ UNCHANGED <<pc, ret, outsideRlo>>

\* an invoker that sleeps before it lets the exception through
RloRaiseSlept ==
    /\ pc = "rlo"
    /\ rlo.retry < max_retries
    /\ \/ /\ Sent(rlo.op, rlo.arg)
          /\ FaultOK
          /\ faults' = Spend
          /\ \E e \in RemoteErrors(rlo.op, rlo.arg) : ret' = Raise(e)
       \/ /\ faults' = faults
          /\ \E e \in LocalErrors(rlo.op, rlo.arg) : ret' = Raise(e)
    /\ pc' = rlo.caller
    /\ rlo' = [rlo EXCEPT !.calls = @ + 1, !.result = ret',
                          !.sleeps = Append(@, [sig |-> "transient",
                                                n |-> rlo.retry,
                                                secs |-> delay(rlo.retry)])]
    /\ UNCHANGED outsideRlo

\* line 107, no handler matches: any other exception propagates.
RloRaise ==
    /\ pc = "rlo"
    /\ rlo.retry < max_retries
    /\ \/ /\ Sent(rlo.op, rlo.arg)
          /\ FaultOK
          /\ faults' = Spend
          /\ \E e \in RemoteErrors(rlo.op, rlo.arg) : ret' = Raise(e)
       \/ /\ faults' = faults
          /\ \E e \in LocalErrors(rlo.op, rlo.arg) : ret' = Raise(e)
    /\ pc' = rlo.caller
    /\ rlo' = [rlo EXCEPT !.calls = @ + 1, !.result = ret']
    /\ UNCHANGED outsideRlo

\* lines 117-119: the loop ran out; log and return None.
RloExhausted ==
    /\ pc = "rlo"
    /\ rlo.retry >= max_retries
    /\ pc' = rlo.caller
    /\ ret' = Null
    /\ rlo' = [rlo EXCEPT !.result = Null]
    /\ UNCHANGED <<faults, outsideRlo>>

----------------------------------------------------------------------------
(* scrape_channel_messages                                                 *)

\* line 151: limit_per_request = min(100, limit)
page_cap == 100

limit_per_request(limit) == Min(page_cap, limit)

\* a cursor left on the first (newest) message of the page
first_id(messages) == messages[1]

\* line 199: offset_id = messages[-1].id
last_id(messages) == messages[Len(messages)]

\* a loop that goes on after a short page
never_short(messages, requested) == FALSE

\* line 206: len(messages) < limit_per_request
short_page(messages, requested) == Len(messages) < requested

\* a record whose sender fields stay unset when the lookup fails
MessageDataUnset(id, channel_username) ==
    LET sender_id == SenderOf(id)
        base == [id |-> id, channel |-> channel_username,
                 has_media |-> HasMedia(id)]
    IN  IF sender_id = 0 \/ sender_id \in world.badSenders
        THEN base @@ [sender_id |-> sender_id, sender_name |-> "NaN",
                      sender_username |-> "NaN"]
        ELSE base @@ [sender_id |-> sender_id, sender_name |-> "First Last",
                      sender_username |-> "user"]

\* lines 171-196: the record built for one message; the sender is looked up
\* when the message has a sender_id, and "Unknown" stands in when the lookup
\* raises.
MessageData(id, channel_username) ==
    LET sender_id == SenderOf(id)
        base == [id |-> id, channel |-> channel_username,
                 has_media |-> HasMedia(id)]
    IN  IF sender_id = 0
        THEN base @@ [sender_id |-> 0, sender_name |-> "NaN",
                      sender_username |-> "NaN"]
        ELSE IF sender_id \in world.badSenders
        THEN base @@ [sender_id |-> sender_id, sender_name |-> "Unknown",
                      sender_username |-> "Unknown"]
        ELSE base @@ [sender_id |-> sender_id, sender_name |-> "First Last",
                      sender_username |-> "user"]

\* line 186: client.get_entity(message.sender_id) raises for this message.
LookupFails(id) == SenderOf(id) # 0 /\ SenderOf(id) \in world.badSenders

\* an except clause at `line` has caught an exception and its handler has
\* called the logger
CaughtAndLogged(f, line) ==
    [f EXCEPT !.caught = @ \cup {line}, !.logged = @ \cup {line}]

\* lines 190-194: the handler of the sender lookup sets the three sender
\* fields and calls no logger
CaughtSilently(f, line) == [f EXCEPT !.caught = @ \cup {line}]

\* The frame before the function runs; `i` is the position of the loop of
\* line 169 in the page, `slept` the number of sleeps of line 204, `caught`
\* holds the lines of the except clauses of the function that caught an
\* exception, `logged` those whose handler emitted a log record.
ScrIdle ==
    [channel_username |-> <<>>, limit |-> 0, channel |-> NoEntity,
     all_messages |-> <<>>, offset_id |-> 0, total_messages |-> 0,
     limit_per_request |-> 0, history |-> NoRet, i |-> 0, slept |-> 0,
     caught |-> {}, logged |-> {}, caller |-> "halt"]

\* lines 133-136: entry; the '@' is stripped.
ScrapeInvoke(channel_username, limit, caller) ==
    [ScrIdle EXCEPT !.channel_username = StripAt(channel_username),
                    !.limit = limit, !.caller = caller]

\* line 140: the first thing the function does is resolve the entity.
ScrapeCall(channel_username, limit, caller) ==
    /\ scr' = ScrapeInvoke(channel_username, limit, caller)
    /\ rlo' = RloInvoke("get_entity", [username |-> StripAt(channel_username)],
                     "scr_entity")
    /\ pc' = "rlo"
    /\ ret' = NoRet

\* a fetch that returns its records oldest first
ScrapeReturnSorted(f, df) ==
    /\ pc' = f.caller
    /\ ret' = Value(DataFrame([i \in 1..Len(df) |-> df[Len(df) + 1 - i]]))
    /\ rlo' = RloIdle

\* lines 209-215: the records as a DataFrame (empty when there are none).
ScrapeReturn(f, df) ==
    /\ pc' = f.caller
    /\ ret' = Value(DataFrame(df))
    /\ rlo' = RloIdle

\* line 154: the loop test, followed by the page request of lines 155-164
\* or by the return.
ScrapeLoop(f) ==
    IF f.total_messages < f.limit
    THEN /\ pc' = "rlo"
         /\ ret' = NoRet
         /\ rlo' = RloInvoke("GetHistoryRequest",
                             [peer |-> f.channel, offset_id |-> f.offset_id,
                              limit |-> f.limit_per_request], "scr_page")
    ELSE ScrapeReturn(f, f.all_messages)

\* lines 141-143: the channel does not exist; an empty DataFrame.
ScrapeNotFound ==
    /\ pc = "scr_entity"
    /\ ret.kind = "raise"
    /\ ret.val.error \in {"UsernameNotOccupiedError", "ValueError"}
    /\ scr' = CaughtAndLogged(scr, 141)
    /\ ScrapeReturn(scr, <<>>)
    /\ UNCHANGED outsideScr

\* lines 217-219: any other exception of the lookup; an empty DataFrame.
ScrapeEntityError ==
    /\ pc = "scr_entity"
    /\ ret.kind = "raise"
    /\ ret.val.error \notin {"UsernameNotOccupiedError", "ValueError"}
    /\ scr' = CaughtAndLogged(scr, 217)
    /\ ScrapeReturn(scr, <<>>)
    /\ UNCHANGED outsideScr

\* lines 140-154: the lookup returned (an entity, or None after the
\* retries ran out); the loop starts.
ScrapeResolved ==
    /\ pc = "scr_entity"
    /\ ret.kind \in {"value", "null"}
    /\ LET f == [scr EXCEPT
                   !.channel = IF ret.kind = "null" THEN NoEntity ELSE ret.val,
                   !.all_messages = <<>>,
                   !.offset_id = 0,
                   !.total_messages = 0,
                   !.limit_per_request = limit_per_request(scr.limit)]
       IN  scr' = f /\ ScrapeLoop(f)
    /\ UNCHANGED outsideScr

\* lines 217-219: the page request raised; an empty DataFrame.
ScrapePageError ==
    /\ pc = "scr_page"
    /\ ret.kind = "raise"
    /\ scr' = CaughtAndLogged(scr, 217)
    /\ ScrapeReturn(scr, <<>>)
    /\ UNCHANGED outsideScr

\* a fetch that gives up its records when a page does not come
ScrapeNoPageDiscards ==
    /\ pc = "scr_page"
    /\ \/ ret.kind = "null"
       \/ ret.kind = "value" /\ Len(ret.val.messages) = 0
    /\ scr' = [scr EXCEPT !.history = ret]
    /\ ScrapeReturn(scr, <<>>)
    /\ UNCHANGED outsideScr

\* lines 166-167: no page (None), or a page without messages; leave the loop.
ScrapeNoPage ==
    /\ pc = "scr_page"
    /\ \/ ret.kind = "null"
       \/ ret.kind = "value" /\ Len(ret.val.messages) = 0
    /\ scr' = [scr EXCEPT !.history = ret]
    /\ ScrapeReturn(scr, scr.all_messages)
    /\ UNCHANGED outsideScr

\* line 184: the position, from i on, of the next message of the page that
\* has a sender (one past the page when there is none).
NextSender(messages, i) ==
    LET with == {j \in i..Len(messages) : SenderOf(messages[j]) # 0}
    IN  IF with = {} THEN Len(messages) + 1
        ELSE CHOOSE j \in with : \A k \in with : j <= k

\* lines 169-204: the loop over the page from message i on, up to the next
\* point where the task is suspended.  A message without sender gets its
\* record at once (lines 170-184, 196); at a message with a sender the task
\* awaits client.get_entity (line 186).  After the last message the cursor
\* moves to the last id, the count grows (lines 198-201) and the task
\* sleeps half a second (line 204).
ScrapeMessages(f, i) ==
    LET messages == f.history.val.messages
        j == NextSender(messages, i)
        g == [f EXCEPT
                !.all_messages = @ \o
                    [k \in 1..(j - i) |->
                        MessageData(messages[i + k - 1], f.channel_username)],
                !.i = j]
    IN  /\ IF j <= Len(messages)
           THEN /\ scr' = g
                /\ pc' = "scr_sender"
           ELSE /\ scr' = [g EXCEPT
                             !.offset_id = last_id(messages),
                             !.total_messages = @ + Len(messages),
                             !.slept = @ + 1]
                /\ pc' = "scr_sleep"
        /\ ret' = NoRet
        /\ rlo' = RloIdle

\* lines 168-186: a page with messages has come; the loop over its messages
\* starts.
ScrapePage ==
    /\ pc = "scr_page"
    /\ ret.kind = "value"
    /\ Len(ret.val.messages) > 0
    /\ ScrapeMessages([scr EXCEPT !.history = ret], 1)
    /\ UNCHANGED outsideScr

\* lines 186-196: the lookup of the sender of message i has returned or
\* raised; the record is appended with the sender's name or with "Unknown",
\* and the loop goes on.
ScrapeSender ==
    /\ pc = "scr_sender"
    /\ LET id == scr.history.val.messages[scr.i]
           g == [scr EXCEPT
                   !.all_messages =
                       Append(@, MessageData(id, scr.channel_username))]
           f == IF LookupFails(id) THEN CaughtSilently(g, 190) ELSE g
       IN  ScrapeMessages(f, scr.i + 1)
    /\ UNCHANGED outsideScr

\* lines 204-207 and 154: the sleep is over; leave the loop on a short
\* page, or test the count and go on.
ScrapeSlept ==
    /\ pc = "scr_sleep"
    /\ IF short_page(scr.history.val.messages, scr.limit_per_request)
       THEN ScrapeReturn(scr, scr.all_messages)
       ELSE ScrapeLoop(scr)
    /\ UNCHANGED <<scr, outsideScr>>

----------------------------------------------------------------------------
(* client.iter_messages                                                    *)

\* The messages a search for any query matches.
Matches(id) == id % 2 = 1

RECURSIVE SumHistory(_)
SumHistory(U) ==
    IF U = {} THEN 0
    ELSE LET u == CHOOSE x \in U : TRUE
         IN  world.history[u] + SumHistory(U \ {u})

\* The ids, newest first, that iter_messages(channel, limit, search) yields:
\* the messages of the channel that match, at most `limit` of them.  With
\* None for the channel the search is global: the messages of every chat.
IterMessages(channel, limit) ==
    LET M == IF channel.ok THEN world.history[channel.username]
             ELSE SumHistory(Usernames)
        all == [i \in 1..M |-> M - i + 1]
        hits == SelectSeq(all, Matches)
    IN  SubSeq(hits, 1, Min(Len(hits), IF limit < 0 THEN 0 ELSE limit))

----------------------------------------------------------------------------
(* search_messages                                                         *)

SrchIdle ==
    [channel_username |-> <<>>, query |-> "", limit |-> 0,
     todo |-> <<>>, matching_messages |-> <<>>, caller |-> "halt"]

\* lines 338-344: entry; the '@' is stripped and the entity is resolved.
SearchCall(channel_username, query, limit, caller) ==
    /\ srch' = [SrchIdle EXCEPT
                  !.channel_username = StripAt(channel_username),
                  !.query = query, !.limit = limit, !.caller = caller]
    /\ rlo' = RloInvoke("get_entity", [username |-> StripAt(channel_username)],
                        "srch_entity")
    /\ pc' = "rlo"
    /\ ret' = NoRet

\* lines 345-347 and 377-379: the lookup raised; an empty DataFrame.
SearchEntityError ==
    /\ pc = "srch_entity"
    /\ ret.kind = "raise"
    /\ pc' = srch.caller
    /\ ret' = Value(DataFrame(<<>>))
    /\ rlo' = RloIdle
    /\ UNCHANGED <<faults, srch, outsideSrch>>

\* lines 344-353: the lookup returned; the iteration starts.
SearchResolved ==
    /\ pc = "srch_entity"
    /\ ret.kind \in {"value", "null"}
    /\ srch' = [srch EXCEPT
                  !.todo = IterMessages(IF ret.kind = "null" THEN NoEntity
                                        ELSE ret.val, srch.limit),
                  !.matching_messages = <<>>]
    /\ pc' = "srch_iter"
    /\ ret' = NoRet
    /\ rlo' = RloIdle
    /\ UNCHANGED <<faults, outsideSrch>>

\* lines 353-366: the iterator yields a message; its record is appended.
SearchMessage ==
    /\ pc = "srch_iter"
    /\ srch.todo # <<>>
    /\ srch' = [srch EXCEPT
                  !.todo = Tail(@),
                  !.matching_messages =
                      Append(@, [id |-> Head(srch.todo),
                                 channel |-> srch.channel_username,
                                 has_media |-> HasMedia(Head(srch.todo))])]
    /\ UNCHANGED <<pc, faults, ret, rlo, outsideSrch>>

\* lines 368-375: the iterator is exhausted; the matches as a DataFrame.
SearchDone ==
    /\ pc = "srch_iter"
    /\ srch.todo = <<>>
    /\ pc' = srch.caller
    /\ ret' = Value(DataFrame(srch.matching_messages))
    /\ UNCHANGED <<faults, rlo, srch, outsideSrch>>

\* lines 377-379: the iterator raised (its requests are not wrapped by
\* rate_limited_operation); an empty DataFrame.
SearchIterError ==
    /\ pc = "srch_iter"
    /\ FaultOK
    /\ faults' = Spend
    /\ pc' = srch.caller
    /\ ret' = Value(DataFrame(<<>>))
    /\ UNCHANGED <<rlo, srch, outsideSrch>>

----------------------------------------------------------------------------
(* download_media_from_channel                                             *)

\* The characters of the handles: ASCII letters and digits, the underscore,
\* the hyphen, a letter and a digit outside ASCII (U+00E9 and U+0663, each
\* one character, written by name), and other characters.
AsciiAlnum == {"a", "b", "c", "e", "h", "l", "n", "Z", "7"}
OtherAlnum == {"e-acute", "arabic-3"}
Punctuation == {" ", "!", "@"}

\* the class \w of an ASCII-only pattern
IsAsciiWord(c) == c \in AsciiAlnum \cup {"_"}

\* the class \w of a str pattern: the alphanumerics of Unicode and '_'
IsWord(c) == c \in AsciiAlnum \cup OtherAlnum \cup {"_"}

\* line 233: re.sub(r'[^\w\-_]', '_', channel_username)
Sanitize(channel_username) ==
    [i \in 1..Len(channel_username) |->
        IF IsWord(channel_username[i]) \/ channel_username[i] \in {"-", "_"}
        THEN channel_username[i]
        ELSE "_"]

DlIdle ==
    [channel_username |-> <<>>, limit |-> 0,
     channel_folder |-> [folder |-> "", sub |-> <<>>],
     channel |-> NoEntity,
     downloaded |-> 0, skipped |-> 0, caller |-> "halt"]

\* lines 231-238: the frame at entry: the folder of the channel, named
\* after the handle as it was given, and the handle without its '@'.
DownloadInvoke(channel_username, folder, limit, caller) ==
    [DlIdle EXCEPT !.channel_username = StripAt(channel_username),
                   !.channel_folder = [folder |-> folder,
                                       sub |-> Sanitize(channel_username)],
                   !.limit = limit, !.caller = caller]

\* lines 231-241: entry; the folder is made, the '@' is stripped and the
\* entity is resolved.
DownloadCall(channel_username, limit, caller) ==
    /\ dl' = DownloadInvoke(channel_username, "downloads", limit, caller)
    /\ rlo' = RloInvoke("get_entity", [username |-> StripAt(channel_username)],
                        "dl_entity")
    /\ pc' = "rlo"
    /\ ret' = NoRet

\* lines 242-244 and 284-285: the lookup raised; log and return.
DownloadEntityError ==
    /\ pc = "dl_entity"
    /\ ret.kind = "raise"
    /\ pc' = dl.caller
    /\ ret' = Null
    /\ rlo' = RloIdle
    /\ UNCHANGED <<dl, outsideDl>>

\* lines 247-251 and 284-285: the lookup returned; the counters are set and
\* the loop header is evaluated.  enumerate() takes no asynchronous
\* iterator and `async for` takes no enumerate object, so the header raises
\* before the first message; the except of line 284 logs and the function
\* returns.
DownloadResolved ==
    /\ pc = "dl_entity"
    /\ ret.kind \in {"value", "null"}
    /\ dl' = [dl EXCEPT
                 !.channel = IF ret.kind = "null" THEN NoEntity ELSE ret.val,
                 !.downloaded = 0, !.skipped = 0]
    /\ pc' = dl.caller
    /\ ret' = Null
    /\ rlo' = RloIdle
    /\ UNCHANGED outsideDl

----------------------------------------------------------------------------
(* monitor_channel                                                         *)

MonIdle ==
    [channel_username |-> <<>>, duration_seconds |-> [valid |-> TRUE],
     caller |-> "halt"]

\* lines 296-302: entry; the '@' is stripped and the entity is resolved.
MonitorCall(channel_username, duration_seconds, caller) ==
    /\ mon' = [MonIdle EXCEPT !.channel_username = StripAt(channel_username),
                              !.duration_seconds = duration_seconds,
                              !.caller = caller]
    /\ rlo' = RloInvoke("get_entity", [username |-> StripAt(channel_username)],
                        "mon_entity")
    /\ pc' = "rlo"
    /\ ret' = NoRet

\* lines 303-305 and 322-323: the lookup raised; log and return.
MonitorEntityError ==
    /\ pc = "mon_entity"
    /\ ret.kind = "raise"
    /\ pc' = mon.caller
    /\ ret' = Null
    /\ rlo' = RloIdle
    /\ UNCHANGED <<mon, handlers, monlog, outsideMon>>

\* client.on(events.NewMessage(chats=channel)): the callback is added to the
\* client's handlers; chats=None filters nothing.
Register(hs, channel, channel_username) ==
    Append(hs, [chats |-> channel, channel_username |-> channel_username])

\* lines 308-316: the lookup returned (an entity or None); the handler is
\* registered and the function sleeps for the duration.  asyncio.sleep
\* raises TypeError for a duration that is no number, and the except of
\* line 322 logs and returns.
MonitorResolved ==
    /\ pc = "mon_entity"
    /\ ret.kind \in {"value", "null"}
    /\ handlers' = Register(handlers,
                            IF ret.kind = "null" THEN NoEntity ELSE ret.val,
                            mon.channel_username)
    /\ IF mon.duration_seconds.valid
       THEN pc' = "mon_sleep" /\ ret' = NoRet
       ELSE pc' = mon.caller /\ ret' = Null
    /\ rlo' = RloIdle
    /\ UNCHANGED <<mon, monlog, outsideMon>>

\* line 319: client.remove_event_handler(new_message_handler); the handler
\* of the running monitor is the one registered last.
remove_event_handler(hs) == SubSeq(hs, 1, Len(hs) - 1)

\* lines 316-320: the sleep is over; the handler is removed.
MonitorWake ==
    /\ pc = "mon_sleep"
    /\ handlers' = remove_event_handler(handlers)
    /\ pc' = mon.caller
    /\ ret' = Null
    /\ UNCHANGED <<rlo, mon, monlog, outsideMon>>

\* Whether a handler is called for a new message in `chat`.
Takes(h, chat) == ~ h.chats.ok \/ h.chats.username = chat

\* lines 309-313: a new message arrives in some chat while the task is
\* suspended; every registered handler that takes it logs a line.
NewMessage ==
    /\ Len(monlog) < MaxEvents
    /\ \E chat \in Chats :
        LET called == SelectSeq(handlers, LAMBDA h : Takes(h, chat))
        IN  /\ called # <<>>
            /\ monlog' = monlog \o
                  [i \in 1..Len(called) |->
                      [channel_username |-> called[i].channel_username,
                       chat |-> chat, monitoring |-> pc = "mon_sleep"]]
    /\ UNCHANGED <<pc, ret, rlo, mon, handlers, outsideMon>>

----------------------------------------------------------------------------
(* export_data                                                             *)

\* format.lower()
Lower(format) ==
    CASE format = "CSV" -> "csv"
      [] format = "Excel" -> "excel"
      [] OTHER -> format

\* The numbers of data rows a write that fails may leave in the file: any
\* number short of the whole batch.
WrittenBeforeError(data) == 0..(Len(data.rows) - 1)

\* What can happen to the file system calls of one export of `data`: the
\* directory cannot be made (line 443); the file cannot be opened (lines
\* 450, 453); the file is opened, so created or truncated, and the write
\* fails after `written` data rows; or everything works.
ExportOutcomes(data) ==
    {[kind |-> "ok", written |-> Len(data.rows)],
     [kind |-> "makedirs_error", written |-> 0],
     [kind |-> "open_error", written |-> 0]}
        \cup {[kind |-> "write_error", written |-> n] :
                 n \in WrittenBeforeError(data)}

\* line 444: the timestamp of the file name; the clock may have moved on.
Timestamps == {t \in clock..(clock + 1) : t <= MaxClock}

\* lines 445-453: output/{prefix}_{timestamp}.{csv|xlsx}
FilePath(filename_prefix, timestamp, format) ==
    [prefix |-> filename_prefix, timestamp |-> timestamp,
     ext |-> IF Lower(format) = "csv" THEN "csv" ELSE "xlsx"]

\* data.to_csv / data.to_excel: the file holds a header and one data row
\* per record written; a file of the same name is overwritten.
WriteFile(files, file_path, rows) ==
    {f \in files : f.path # file_path}
        \cup {[path |-> file_path, rows |-> rows]}

\* lines 429-462: what export_data returns (or raises) and the files under
\* output/ afterwards.  The except of lines 460-462 logs and returns None;
\* it removes nothing, so the file of a write that failed stays.
export_data(data, filename_prefix, format, outcome, timestamp) ==
    IF data.rows = <<>>
    THEN [ret |-> Null, files |-> artifacts]
    ELSE IF outcome.kind = "makedirs_error"
    THEN [ret |-> Raise("OSError"), files |-> artifacts]
    ELSE IF Lower(format) \notin {"csv", "excel"}
    THEN [ret |-> Null, files |-> artifacts]
    ELSE IF outcome.kind = "open_error"
    THEN [ret |-> Null, files |-> artifacts]
    ELSE LET file_path == FilePath(filename_prefix, timestamp, format)
         IN  IF outcome.kind = "write_error"
             THEN [ret |-> Null,
                   files |-> WriteFile(artifacts, file_path,
                                       SubSeq(data.rows, 1, outcome.written))]
             ELSE [ret |-> Value([file_path |-> file_path]),
                   files |-> WriteFile(artifacts, file_path, data.rows)]

----------------------------------------------------------------------------
(* get_channel_info                                                        *)

InfoIdle ==
    [channel_username |-> <<>>, channel_info |-> Nothing, caller |-> "halt"]

\* lines 392-398: entry; the '@' is stripped and the entity is resolved.
InfoCall(channel_username, caller) ==
    /\ info' = [InfoIdle EXCEPT !.channel_username = StripAt(channel_username),
                                !.caller = caller]
    /\ rlo' = RloInvoke("get_entity", [username |-> StripAt(channel_username)],
                        "info_entity")
    /\ pc' = "rlo"
    /\ ret' = NoRet

\* lines 399-401: the channel does not exist; log and return None.
InfoNotFound ==
    /\ pc = "info_entity"
    /\ ret.kind = "raise"
    /\ ret.val.error \in {"UsernameNotOccupiedError", "ValueError"}
    /\ pc' = info.caller
    /\ ret' = Null
    /\ rlo' = RloIdle
    /\ UNCHANGED <<info, outsideInfo>>

\* lines 424-426: the lookup raised something else, or returned None so
\* that channel.id raises AttributeError; log and return None.
InfoError ==
    /\ pc = "info_entity"
    /\ \/ ret.kind = "raise"
          /\ ret.val.error \notin {"UsernameNotOccupiedError", "ValueError"}
       \/ ret.kind = "null"
    /\ pc' = info.caller
    /\ ret' = Null
    /\ rlo' = RloIdle
    /\ UNCHANGED <<info, outsideInfo>>

\* lines 404-416: the entity is there; the info is gathered and the full
\* channel is requested.
InfoResolved ==
    /\ pc = "info_entity"
    /\ ret.kind = "value"
    /\ info' = [info EXCEPT !.channel_info =
                    [username |-> ret.val.username,
                     participants_count |-> 0]]
    /\ rlo' = RloInvoke("GetFullChannelRequest", [peer |-> ret.val],
                        "info_full")
    /\ pc' = "rlo"
    /\ ret' = NoRet
    /\ UNCHANGED outsideInfo

\* lines 416-422: the full channel answered (the counts are filled in), or
\* it raised or came back None (a warning is logged); the info is returned.
InfoFull ==
    /\ pc = "info_full"
    /\ LET channel_info ==
             IF ret.kind = "value"
             THEN [info.channel_info EXCEPT
                     !.participants_count = ret.val.participants_count]
             ELSE info.channel_info
       IN  /\ info' = [info EXCEPT !.channel_info = channel_info]
           /\ ret' = Value(channel_info)
    /\ pc' = info.caller
    /\ rlo' = RloIdle
    /\ UNCHANGED outsideInfo

----------------------------------------------------------------------------
(* process_channel                                                         *)

ProcIdle ==
    [channel_username |-> <<>>, stages |-> <<>>, channel_info |-> NoRet,
     results |-> Nothing, caller |-> "halt"]

\* What process_channel returns: False, or the results dictionary.
False == Value([ok |-> FALSE])
Results(results) == Value([ok |-> TRUE, results |-> results])

\* lines 467-471: entry; the channel info is resolved first.
ProcessCall(channel_username, caller) ==
    /\ proc' = [ProcIdle EXCEPT !.channel_username = channel_username,
                                !.stages = <<"ResolveInfo">>,
                                !.caller = caller]
    /\ InfoCall(channel_username, "proc_info")

\* The frames a step of process_channel leaves alone when it starts none of
\* the stages.
NoStage ==
    /\ rlo' = RloIdle
    /\ scr' = ScrIdle
    /\ srch' = SrchIdle
    /\ dl' = DlIdle
    /\ mon' = MonIdle

\* a stage that no option switches off
StageAlways(k, o) == TRUE

\* lines 482, 489, 496 and 501: the test that gates stage number k (1 the
\* fetch, 2 the search, 3 the download, 4 the monitor).
StageOn(k, o) ==
    CASE k = 1 -> o.scrape_messages
      [] k = 2 -> o.search_query # ""
      [] k = 3 -> o.download_media
      [] k = 4 -> o.monitor

\* lines 481-505: from stage number k on, the first stage whose option is
\* set is started; without one the results are returned.
ProcessFrom(k, f) ==
    LET o == input.options
        c == f.channel_username
    IN  IF k <= 1 /\ StageOn(1, o)
        THEN /\ proc' = [f EXCEPT !.stages = Append(@, "Fetch")]
             /\ ScrapeCall(c, o.message_limit, "proc_scraped")
             /\ srch' = SrchIdle /\ dl' = DlIdle /\ mon' = MonIdle
        ELSE IF k <= 2 /\ StageOn(2, o)
        THEN /\ proc' = [f EXCEPT !.stages = Append(@, "Search")]
             /\ SearchCall(c, o.search_query, o.search_limit, "proc_searched")
             /\ scr' = ScrIdle /\ dl' = DlIdle /\ mon' = MonIdle
        ELSE IF k <= 3 /\ StageOn(3, o)
        THEN /\ proc' = [f EXCEPT !.stages = Append(@, "Download")]
             /\ DownloadCall(c, o.media_limit, "proc_downloaded")
             /\ scr' = ScrIdle /\ srch' = SrchIdle /\ mon' = MonIdle
        ELSE IF k <= 4 /\ StageOn(4, o)
        THEN /\ proc' = [f EXCEPT !.stages = Append(@, "Monitor")]
             /\ MonitorCall(c, o.monitor_duration, "proc_monitored")
             /\ scr' = ScrIdle /\ srch' = SrchIdle /\ dl' = DlIdle
        ELSE /\ proc' = f
             /\ pc' = f.caller
             /\ ret' = Results(f.results)
             /\ NoStage

\* lines 485-486 and 492-493: the DataFrame of a stage is exported when it
\* is not empty; an exception of export_data leaves process_channel
\* through the except of lines 507-509 (False), otherwise the next stage
\* follows.
ProcessExport(k, f, df, filename_prefix) ==
    IF df.rows = <<>>
    THEN ProcessFrom(k, f) /\ UNCHANGED <<artifacts, clock>>
    ELSE \E outcome \in ExportOutcomes(df), timestamp \in Timestamps :
            LET r == export_data(df, filename_prefix,
                                 input.options.export_format, outcome,
                                 timestamp)
            IN  /\ artifacts' = r.files
                /\ clock' = timestamp
                /\ IF r.ret.kind = "raise"
                   THEN /\ proc' = f
                        /\ pc' = f.caller
                        /\ ret' = False
                        /\ NoStage
                   ELSE ProcessFrom(k, f)

\* a process_channel that goes on without the channel info
ProcessNoInfoGoesOn ==
    /\ pc = "proc_info"
    /\ ret.kind = "null"
    /\ ProcessFrom(1, [proc EXCEPT !.channel_info = ret,
                                   !.results = [stages |-> {}]])
    /\ info' = InfoIdle
    /\ UNCHANGED <<artifacts, clock, outsideProc>>

\* lines 472-474: no channel info; log and return False.
ProcessNoInfo ==
    /\ pc = "proc_info"
    /\ ret.kind = "null"
    /\ proc' = [proc EXCEPT !.channel_info = ret]
    /\ pc' = proc.caller
    /\ ret' = False
    /\ NoStage
    /\ info' = InfoIdle
    /\ UNCHANGED <<artifacts, clock, outsideProc>>

\* lines 476-481: the info is there; the results start empty and the
\* stages follow.
ProcessInfo ==
    /\ pc = "proc_info"
    /\ ret.kind = "value"
    /\ ProcessFrom(1, [proc EXCEPT !.channel_info = ret,
                                   !.results = [stages |-> {}]])
    /\ info' = InfoIdle
    /\ UNCHANGED <<artifacts, clock, outsideProc>>

\* lines 483-486: the fetch returned; its DataFrame is kept and exported.
ProcessScraped ==
    /\ pc = "proc_scraped"
    /\ ProcessExport(2, [proc EXCEPT !.results =
                            [stages |-> @.stages \cup {"messages"}]],
                     ret.val,
                     [channel |-> proc.channel_username,
                      suffix |-> "messages"])
    /\ UNCHANGED <<info, outsideProc>>

\* lines 490-493: the search returned; its DataFrame is kept and exported.
ProcessSearched ==
    /\ pc = "proc_searched"
    /\ ProcessExport(3, [proc EXCEPT !.results =
                            [stages |-> @.stages \cup {"search"}]],
                     ret.val,
                     [channel |-> proc.channel_username,
                      suffix |-> "search_" \o input.options.search_query])
    /\ UNCHANGED <<info, outsideProc>>

\* lines 496-501: the download returned.
ProcessDownloaded ==
    /\ pc = "proc_downloaded"
    /\ ProcessFrom(4, proc)
    /\ UNCHANGED <<info, artifacts, clock, outsideProc>>

\* lines 501-505: the monitor returned; the results are returned.
ProcessMonitored ==
    /\ pc = "proc_monitored"
    /\ ProcessFrom(5, proc)
    /\ UNCHANGED <<info, artifacts, clock, outsideProc>>

----------------------------------------------------------------------------
(* main                                                                    *)

MnIdle ==
    [status |-> "connecting", i |-> 0, channel_info_list |-> <<>>,
     processed |-> <<>>]

\* The frames a step of main leaves alone when it calls nothing.
NoCall ==
    /\ rlo' = RloIdle
    /\ info' = InfoIdle
    /\ proc' = ProcIdle

\* lines 541-546: the second loop: process_channel for the i-th channel, or
\* disconnect and finish after the last one.
MainProcessLoop(f) ==
    IF f.i <= Len(input.channels)
    THEN /\ mn' = f
         /\ ProcessCall(input.channels[f.i], "mn_processed")
    ELSE /\ mn' = [f EXCEPT !.status = "completed"]
         /\ pc' = "halt"
         /\ ret' = NoRet
         /\ NoCall

\* lines 536-541: the info table is exported when it has rows; an exception
\* of export_data is caught nowhere in main and ends the run (exit code 1).
MainExportInfo(f) ==
    IF f.channel_info_list = <<>>
    THEN MainProcessLoop([f EXCEPT !.i = 1]) /\ UNCHANGED <<artifacts, clock>>
    ELSE \E outcome \in ExportOutcomes(DataFrame(f.channel_info_list)),
            timestamp \in Timestamps :
            LET r == export_data(DataFrame(f.channel_info_list),
                                 [channel |-> <<>>,
                                  suffix |-> "all_channels_info"],
                                 input.options.export_format, outcome,
                                 timestamp)
            IN  /\ artifacts' = r.files
                /\ clock' = timestamp
                /\ IF r.ret.kind = "raise"
                   THEN /\ mn' = [f EXCEPT !.status = "crashed"]
                        /\ pc' = "halt"
                        /\ ret' = r.ret
                        /\ NoCall
                   ELSE MainProcessLoop([f EXCEPT !.i = 1])

\* lines 529-538: the first loop: get_channel_info for the i-th channel, or
\* the export of the info table after the last one.
MainInfoLoop(f) ==
    IF f.i <= Len(input.channels)
    THEN /\ mn' = f
         /\ InfoCall(input.channels[f.i], "mn_info")
         /\ UNCHANGED <<proc, artifacts, clock>>
    ELSE MainExportInfo(f)

\* lines 523-525: basic_connection failed; log and return.
MainNotConnected ==
    /\ pc = "main"
    /\ mn' = [mn EXCEPT !.status = "not connected"]
    /\ pc' = "halt"
    /\ ret' = NoRet
    /\ NoCall
    /\ UNCHANGED <<scr, srch, dl, mon, artifacts, clock, outsideMain>>

\* lines 523-531: basic_connection succeeded; the first loop starts.
MainConnected ==
    /\ pc = "main"
    /\ MainInfoLoop([mn EXCEPT !.status = "running", !.i = 1])
    /\ UNCHANGED <<scr, srch, dl, mon, outsideMain>>

\* lines 531-533: get_channel_info returned; its info is kept when there is
\* one, and the loop goes on.
MainInfo ==
    /\ pc = "mn_info"
    /\ MainInfoLoop([mn EXCEPT
                       !.i = @ + 1,
                       !.channel_info_list =
                           IF ret.kind = "value" THEN Append(@, ret.val)
                           ELSE @])
    /\ UNCHANGED <<scr, srch, dl, mon, outsideMain>>

\* lines 541-542: process_channel returned; the loop goes on.
MainProcessed ==
    /\ pc = "mn_processed"
    /\ MainProcessLoop([mn EXCEPT
                          !.i = @ + 1,
                          !.processed =
                              Append(@, [channel |-> input.channels[mn.i],
                                         ok |-> ret.val.ok])])
    /\ UNCHANGED <<scr, srch, dl, mon, artifacts, clock, outsideMain>>

----------------------------------------------------------------------------
(* The frames and effects before anything ran                              *)


InitIdle ==
    /\ ret = NoRet
    /\ srch = SrchIdle
    /\ mon = MonIdle
    /\ mn = MnIdle
    /\ handlers = <<>>
    /\ monlog = <<>>
    /\ artifacts = {}
    /\ clock = 0

----------------------------------------------------------------------------
(* rate_limited_operation called on its own                                *)

InitRlo ==
    /\ InitIdle
    /\ pc = "rlo"
    /\ faults = -1
    /\ world = [history |-> [u \in Usernames |-> 0], badSenders |-> {},
                flood |-> FloodSeconds]
    /\ input = [entry |-> "rate_limited_operation"]
    /\ info = InfoIdle
    /\ proc = ProcIdle
    /\ scr = ScrIdle
    /\ dl = DlIdle
    /\ rlo = RloInvoke("probe", Nothing, "halt")

NextRlo ==
    \/ RloReturn
    \/ RloFloodWait
    \/ RloServerError
    \/ RloRaise
    \/ RloExhausted

SpecRlo == InitRlo /\ [][NextRlo]_vars

\* The invocation is the only task that runs: the operation it awaits
\* completes and each of its sleeps ends.
FairRlo == SpecRlo /\ WF_vars(NextRlo)

----------------------------------------------------------------------------
(* scrape_channel_messages called on its own                               *)

InitScrape ==
    /\ InitIdle
    /\ faults = -1
    /\ \E M \in HistorySizes, bad \in BadSenderSets :
          world = [history |-> [u \in Usernames |-> M], badSenders |-> bad,
                   flood |-> FloodSeconds]
    /\ \E c \in Handles, l \in ScrapeLimits :
          /\ input = [entry |-> "scrape_channel_messages",
                      channel_username |-> c, limit |-> l]
          /\ scr = ScrapeInvoke(c, l, "halt")
          /\ rlo = RloInvoke("get_entity", [username |-> StripAt(c)],
                             "scr_entity")
    /\ info = InfoIdle
    /\ proc = ProcIdle
    /\ dl = DlIdle
    /\ pc = "rlo"

NextScrape ==
    \/ NextRlo
    \/ ScrapeNotFound
    \/ ScrapeEntityError
    \/ ScrapeResolved
    \/ ScrapePageError
    \/ ScrapeNoPage
    \/ ScrapePage
    \/ ScrapeSender
    \/ ScrapeSlept

SpecScrape == InitScrape /\ [][NextScrape]_vars

\* The task is the only one of the event loop: a step that can be taken is
\* taken (every await of the function completes).
FairScrape == SpecScrape /\ WF_vars(NextScrape)

----------------------------------------------------------------------------
(* export_data called on its own, any number of times                      *)

\* the DataFrames handed to export_data
Batches ==
    {DataFrame(<<>>), DataFrame(<<[id |-> 1]>>),
     DataFrame(<<[id |-> 2], [id |-> 1]>>)}

Prefixes == {"a_messages", "all_channels_info"}

InitExport ==
    /\ InitIdle
    /\ pc = "export"
    /\ faults = -1
    /\ world = [history |-> [u \in Usernames |-> 0], badSenders |-> {},
                flood |-> FloodSeconds]
    /\ input = [entry |-> "export_data", calls |-> 0, data |-> DataFrame(<<>>)]
    /\ info = InfoIdle
    /\ proc = ProcIdle
    /\ scr = ScrIdle
    /\ dl = DlIdle
    /\ rlo = RloIdle

\* one call export_data(data, filename_prefix, format)
ExportCall ==
    /\ pc = "export"
    /\ input.calls < MaxExports
    /\ \E data \in Batches, filename_prefix \in Prefixes, format \in Formats,
          timestamp \in Timestamps :
       \E outcome \in ExportOutcomes(data) :
          LET r == export_data(data, filename_prefix, format, outcome,
                               timestamp)
          IN  /\ ret' = r.ret
              /\ artifacts' = r.files
              /\ clock' = timestamp
              /\ input' = [input EXCEPT !.calls = @ + 1, !.data = data]
    /\ pc' = pc
    /\ UNCHANGED outsideExport

NextExport == ExportCall

SpecExport == InitExport /\ [][NextExport]_vars

----------------------------------------------------------------------------
(* download_media_from_channel called on its own                           *)

FolderChars == {"a", "Z", "7", "_", "-"} \cup OtherAlnum \cup Punctuation

\* the handles: every string of at most two characters, and a longer one
FolderHandles ==
    {<<>>} \cup {<<c>> : c \in FolderChars}
           \cup {<<c, d>> : c, d \in FolderChars}
           \cup {<<"c", "h", "a", "n", " ", "n", "e", "l", "!">>}

InitDownload ==
    /\ InitIdle
    /\ faults = -1
    /\ world = [history |-> [u \in Usernames |-> 0], badSenders |-> {},
                flood |-> MainFloodSeconds]
    /\ \E c \in FolderHandles :
          /\ input = [entry |-> "download_media_from_channel",
                      channel_username |-> c]
          /\ dl = DownloadInvoke(c, "downloads", 2, "halt")
          /\ rlo = RloInvoke("get_entity", [username |-> StripAt(c)],
                             "dl_entity")
    /\ info = InfoIdle
    /\ proc = ProcIdle
    /\ scr = ScrIdle
    /\ pc = "rlo"

NextDownloadAlone ==
    \/ NextRlo
    \/ DownloadEntityError
    \/ DownloadResolved

SpecDownload == InitDownload /\ [][NextDownloadAlone]_vars

----------------------------------------------------------------------------
(* process_channel called on its own, with any options                     *)

\* the histories of the channels when process_channel or main is run
SmallHistories == {0, 3}

ValidDuration == [valid |-> TRUE]
InvalidDuration == [valid |-> FALSE]

\* the options handed to process_channel: every choice of stages, with a
\* known format and a numeric duration, or with neither
OptionSets ==
    {[scrape_messages |-> s, message_limit |-> 2,
      search_query |-> q, search_limit |-> 1,
      download_media |-> d, media_limit |-> 2,
      monitor |-> m, monitor_duration |-> x[2],
      export_format |-> x[1]] :
        s \in BOOLEAN, q \in {"", "q"}, d \in BOOLEAN, m \in BOOLEAN,
        x \in {<<"csv", ValidDuration>>, <<"txt", InvalidDuration>>}}

InitProcess ==
    /\ InitIdle
    /\ faults = MaxFaults
    /\ \E M \in SmallHistories :
          world = [history |-> [u \in Usernames |-> M], badSenders |-> {},
                   flood |-> MainFloodSeconds]
    /\ \E c \in Handles, options \in OptionSets :
          /\ input = [entry |-> "process_channel", channel_username |-> c,
                      options |-> options]
          /\ proc = [ProcIdle EXCEPT !.channel_username = c,
                                     !.stages = <<"ResolveInfo">>]
          /\ info = [InfoIdle EXCEPT !.channel_username = StripAt(c),
                                     !.caller = "proc_info"]
          /\ rlo = RloInvoke("get_entity", [username |-> StripAt(c)],
                             "info_entity")
    /\ scr = ScrIdle
    /\ dl = DlIdle
    /\ pc = "rlo"

NextInfo ==
    \/ InfoNotFound
    \/ InfoError
    \/ InfoResolved
    \/ InfoFull

NextDownload ==
    \/ DownloadEntityError
    \/ DownloadResolved

NextProcess ==
    \/ NextRlo
    \/ NextInfo
    \/ ScrapeNotFound
    \/ ScrapeEntityError
    \/ ScrapeResolved
    \/ ScrapePageError
    \/ ScrapeNoPage
    \/ ScrapePage
    \/ ScrapeSender
    \/ ScrapeSlept
    \/ SearchEntityError
    \/ SearchResolved
    \/ SearchMessage
    \/ SearchDone
    \/ SearchIterError
    \/ NextDownload
    \/ MonitorEntityError
    \/ MonitorResolved
    \/ MonitorWake
    \/ NewMessage
    \/ ProcessNoInfo
    \/ ProcessInfo
    \/ ProcessScraped
    \/ ProcessSearched
    \/ ProcessDownloaded
    \/ ProcessMonitored

SpecProcess == InitProcess /\ [][NextProcess]_vars

----------------------------------------------------------------------------
(* The whole program: main over a channel list                             *)

\* the channel lists of list.txt
ChannelLists == {<<>>, <<<<"a">>>>, <<<<"a">>, <<"@", "b">>>>}

\* lines 514-520: the options main hands to process_channel
MainOptions ==
    [scrape_messages |-> TRUE, message_limit |-> 50,
     search_query |-> "", search_limit |-> 500,
     download_media |-> TRUE, media_limit |-> 20,
     monitor |-> FALSE, monitor_duration |-> ValidDuration,
     export_format |-> "csv"]

\* the histories of the channels in a run of main
MainHistories == {0, 3, 60}

\* the messages in the histories of the channels of one run of main
MaxRunMessages == 60

Init ==
    /\ InitIdle
    /\ pc = "main"
    /\ faults = MaxFaults
    /\ \E M \in MainHistories, channels \in ChannelLists :
          /\ Len(channels) * M <= MaxRunMessages
          /\ world = [history |-> [u \in Usernames |-> M], badSenders |-> {},
                      flood |-> MainFloodSeconds]
          /\ input = [entry |-> "main", channels |-> channels,
                      options |-> MainOptions]
    /\ info = InfoIdle
    /\ proc = ProcIdle
    /\ scr = ScrIdle
    /\ dl = DlIdle
    /\ rlo = RloIdle

\* (main's options switch the search and the monitor off: their steps are
\* no steps of a run of main)
Next ==
    \/ NextRlo
    \/ NextInfo
    \/ ScrapeNotFound
    \/ ScrapeEntityError
    \/ ScrapeResolved
    \/ ScrapePageError
    \/ ScrapeNoPage
    \/ ScrapePage
    \/ ScrapeSender
    \/ ScrapeSlept
    \/ NextDownload
    \/ ProcessNoInfo
    \/ ProcessInfo
    \/ ProcessScraped
    \/ ProcessDownloaded
    \/ MainNotConnected
    \/ MainConnected
    \/ MainInfo
    \/ MainProcessed

Spec == Init /\ [][Next]_vars

----------------------------------------------------------------------------
(* Claims about rate_limited_operation (checked under SpecRlo)             *)

AllSig(s, sig) == \A i \in 1..Len(s) : s[i].sig = sig

\* One call of the wrapped operation, whatever its outcome.
RloCall == RloReturn \/ RloFloodWait \/ RloServerError \/ RloRaise

\* Every call made so far ended in a flood-wait or server/timeout signal.
NoAnswerYet == rlo.calls = Len(rlo.sleeps)

\* C1: when the wrapped operation keeps raising a transient server/timeout
\* error, it is called exactly 5 times, then the invoker returns None
\* instead of raising, and it is never called a 6th time.
C1_TransientExhaustion ==
    (NoAnswerYet /\ AllSig(rlo.sleeps, "transient")) =>
        /\ rlo.calls <= 5
        /\ pc = "rlo" => rlo.calls < 5 \/ ~ ENABLED RloCall
        /\ pc = "halt" => rlo.calls = 5 /\ ret = Null

C1_Witness ==
    /\ pc = "halt"
    /\ rlo.calls = 5
    /\ Len(rlo.sleeps) = 5
    /\ AllSig(rlo.sleeps, "transient")
    /\ ret = Null

\* C2 as stated: an invocation in which the remote only signals flood-wait,
\* any number of times, ends with the successful result, because flood-wait
\* retries do not consume the 5-attempt budget (it never ends with None).
C2_FloodWaitUnbudgeted ==
    (pc = "halt" /\ AllSig(rlo.sleeps, "flood") /\ ret.kind # "raise") =>
        ret.kind = "value"

\* C2 amended: after each flood-wait signal of N seconds the invoker sleeps
\* N seconds and retries; every flood-wait retry consumes one of the 5
\* attempts; with at most 4 flood-wait signals followed by a success the
\* result of that one successful call is returned, and after a 5th
\* flood-wait signal the invoker returns None.
C2_FloodWaitBudgeted ==
    /\ \A i \in 1..Len(rlo.sleeps) :
          rlo.sleeps[i].sig = "flood" => rlo.sleeps[i].secs = rlo.sleeps[i].n
    /\ rlo.retry = Len(rlo.sleeps)
    /\ (pc = "halt" /\ AllSig(rlo.sleeps, "flood") /\ ret.kind # "raise") =>
          IF Len(rlo.sleeps) < 5
          THEN ret = Value([result |-> "ok"]) /\ rlo.calls = Len(rlo.sleeps) + 1
          ELSE ret = Null /\ rlo.calls = 5

C2_Witness ==
    /\ pc = "halt"
    /\ ret = Value([result |-> "ok"])
    /\ rlo.calls = 3
    /\ Len(rlo.sleeps) = 2
    /\ rlo.sleeps[1] = [sig |-> "flood", n |-> 3, secs |-> 3]
    /\ rlo.sleeps[2] = [sig |-> "flood", n |-> 1, secs |-> 1]

\* The number of transient signals among the first n signals.
TransientsBefore(n) ==
    Cardinality({j \in 1..n : rlo.sleeps[j].sig = "transient"})

\* C14 as stated: the sleep after the k-th transient signal (k = 0, 1, ...)
\* is 2 * 2^k seconds, however many flood-wait signals came before it.
C14_BackoffCountsTransients ==
    \A i \in 1..Len(rlo.sleeps) :
        rlo.sleeps[i].sig = "transient" =>
            rlo.sleeps[i].secs = 2 * 2 ^ TransientsBefore(i - 1)

\* C14 amended: the sleep after a transient signal is 2 * 2^r seconds, where
\* r is the number of signals of either kind (flood-wait or transient) that
\* came before it in the invocation.
C14_BackoffCountsAll ==
    \A i \in 1..Len(rlo.sleeps) :
        rlo.sleeps[i].sig = "transient" =>
            /\ rlo.sleeps[i].n = i - 1
            /\ rlo.sleeps[i].secs = 2 * 2 ^ (i - 1)

\* two flood-waits, then the first transient signal: a sleep of 8 seconds
C14_Witness ==
    /\ Len(rlo.sleeps) = 4
    /\ rlo.sleeps[1].sig = "flood"
    /\ rlo.sleeps[2].sig = "flood"
    /\ rlo.sleeps[3] = [sig |-> "transient", n |-> 2, secs |-> 8]
    /\ rlo.sleeps[4] = [sig |-> "transient", n |-> 3, secs |-> 16]

\* C15: whatever mix of flood-wait and transient signals the remote sends,
\* the wrapped operation is called at most 5 times in one invocation and the
\* invocation ends; without another exception it ends with the result of
\* the one call that succeeded, or with None after 5 calls that did not.
C15_AtMostFiveCalls ==
    /\ [](/\ rlo.calls <= 5
          /\ Len(rlo.sleeps) <= rlo.calls
          /\ (pc = "halt" /\ ret.kind # "raise") =>
                \/ ret.kind = "value" /\ rlo.calls = Len(rlo.sleeps) + 1
                \/ ret = Null /\ rlo.calls = 5 /\ Len(rlo.sleeps) = 5)
    /\ <>(pc = "halt")

\* five calls, flood-wait and transient signals mixed, then None
C15_Witness ==
    /\ pc = "halt"
    /\ ret = Null
    /\ rlo.calls = 5
    /\ rlo.sleeps[1].sig = "transient"
    /\ rlo.sleeps[2].sig = "flood"
    /\ rlo.sleeps[3].sig = "transient"
    /\ rlo.sleeps[4].sig = "flood"
    /\ rlo.sleeps[5].sig = "flood"

----------------------------------------------------------------------------
(* Claims about scrape_channel_messages                                    *)

\* The fetch has returned and the remote answered every request of it: the
\* entity was resolved, and the last page request gave a page of which
\* every record is in the result.
Answered ==
    /\ scr.channel.ok
    /\ \/ scr.limit <= 0
       \/ scr.history.kind = "value" /\ ret.val.rows = scr.all_messages

\* C3: for a history of M messages and a limit L the fetcher returns exactly
\* min(M, L) records when the remote answers every request, and the
\* accumulated count never exceeds L.
C3_ReturnsMinML ==
    /\ scr.total_messages <= scr.limit
    /\ (pc = "halt" /\ Answered) =>
          Len(ret.val.rows) =
              Min(world.history[scr.channel_username], scr.limit)

\* The answer to the page request at hand: the value the invoker has just
\* returned, or the page the loop is working on.
PageOf == IF pc = "scr_page" THEN ret ELSE scr.history
HasMessages(page) == page.kind = "value" /\ Len(page.val.messages) > 0

\* The step of the pagination loop that ends the handling of a page: the
\* tests of lines 166 and 206 and of the loop condition, or the except clause.
PageStep ==
    \/ pc = "scr_page" /\ ~ HasMessages(ret)
    \/ pc = "scr_sleep"
\* A step inside the handling of a page with messages.
InsidePage ==
    \/ pc = "scr_page" /\ HasMessages(ret)
    \/ pc = "scr_sender"
LoopExit == pc' = scr.caller
\* The cursor moves when the last record of a page is in, to the last id of
\* that page and downwards, and at no other step of the loop.
CursorMoves ==
    IF InsidePage /\ pc' = "scr_sleep"
    THEN /\ scr'.offset_id =
               scr'.history.val.messages[Len(scr'.history.val.messages)]
         /\ scr.offset_id = 0 \/ scr'.offset_id < scr.offset_id
         /\ scr'.total_messages =
               scr.total_messages + Len(scr'.history.val.messages)
    ELSE (InsidePage \/ PageStep) =>
            /\ scr'.offset_id = scr.offset_id
            /\ scr'.total_messages = scr.total_messages

\* C4 as stated: the loop stops exactly when the count is >= limit, or the
\* page was shorter than requested, or the invoker returned None for the
\* page; the cursor is set to the last id of each page and only decreases.
C4_StopsOnLimitShortNull ==
    [][/\ PageStep =>
            LoopExit <=>
               \/ scr.total_messages >= scr.limit
               \/ /\ PageOf.kind = "value"
                  /\ Len(PageOf.val.messages) < scr.limit_per_request
               \/ PageOf.kind = "null"
       /\ InsidePage => ~ LoopExit
       /\ CursorMoves]_vars

\* C4 amended: the loop always terminates, and it stops exactly when the
\* count is >= limit, or the page was shorter than requested, or the invoker
\* returned None for the page, or the page request raised an exception (the
\* fetch then returns an empty result); the cursor is set to the last id of
\* each page and only decreases.
C4_StopsOnLimitShortNullRaise ==
    /\ [][/\ PageStep =>
               /\ LoopExit <=>
                    \/ scr.total_messages >= scr.limit
                    \/ /\ PageOf.kind = "value"
                       /\ Len(PageOf.val.messages) < scr.limit_per_request
                    \/ PageOf.kind = "null"
                    \/ PageOf.kind = "raise"
               /\ PageOf.kind = "raise" => ret' = Value(DataFrame(<<>>))
          /\ InsidePage => ~ LoopExit
          /\ CursorMoves]_vars
    /\ <>(pc = "halt")

\* a second full page has been received and the loop has ended
C4_Witness ==
    /\ pc = "halt"
    /\ scr.history = Value(GetHistory(250, 151, 100))
    /\ Len(ret.val.rows) = 200
    /\ scr.offset_id = 51
    /\ scr.total_messages = 200

Descending(rows) ==
    \A i \in 1..(Len(rows) - 1) : rows[i].id > rows[i + 1].id

\* C19: the records are kept and returned in the order they were fetched:
\* each page is appended behind the pages before it, the ids are strictly
\* descending within and across pages (so no record is there twice), and
\* the fetch returns the records in that order (or none after an error).
C19_FetchOrder ==
    /\ [](/\ Descending(scr.all_messages)
          /\ pc = "halt" =>
                /\ Descending(ret.val.rows)
                /\ ret.val.rows \in {scr.all_messages, <<>>})
    /\ [][/\ Len(scr'.all_messages) >= Len(scr.all_messages)
          /\ SubSeq(scr'.all_messages, 1, Len(scr.all_messages))
                = scr.all_messages]_vars

\* two pages of a history of 250 messages, newest first
C19_Witness ==
    /\ pc = "halt"
    /\ Len(ret.val.rows) = 200
    /\ ret.val.rows[1].id = 250
    /\ ret.val.rows[100].id = 151
    /\ ret.val.rows[101].id = 150
    /\ ret.val.rows[200].id = 51

\* C20: a message whose sender lookup fails still has its record, with the
\* sender name and handle "Unknown" and the sender id of the message; the
\* records are those of every message received, none left out: the k-th
\* record is that of the k-th newest message of the channel, and while the
\* sender of the i-th message of a page is looked up the records of the
\* i - 1 messages before it are in.
C20_UnknownSender ==
    /\ Len(scr.all_messages) =
          scr.total_messages + (IF pc = "scr_sender" THEN scr.i - 1 ELSE 0)
    /\ \A k \in 1..Len(scr.all_messages) :
          LET r == scr.all_messages[k]
          IN  /\ r.id = world.history[scr.channel_username] - k + 1
              /\ LookupFails(r.id) =>
                    /\ r.sender_name = "Unknown"
                    /\ r.sender_username = "Unknown"
                    /\ r.sender_id = SenderOf(r.id)
              /\ r.sender_name = "Unknown" => LookupFails(r.id)
    /\ (pc = "halt" /\ Answered) => ret.val.rows = scr.all_messages

\* the lookup of sender 1 fails: 30 records, those of sender 1 "Unknown"
C20_Witness ==
    /\ pc = "halt"
    /\ world.badSenders = {1}
    /\ Len(ret.val.rows) = 30
    /\ ret.val.rows[3].id = 28
    /\ ret.val.rows[3].sender_id = 1
    /\ ret.val.rows[3].sender_name = "Unknown"
    /\ ret.val.rows[3].sender_username = "Unknown"
    /\ ret.val.rows[2].sender_name = "First Last"

\* The invoker has returned None for a page request.
NullPage == pc = "scr_page" /\ ret.kind = "null"

\* C21: when the invoker returns None for a page request, the fetch returns
\* at once, with exactly the records of the pages received before (one
\* record per message received), and requests no further page.
C21_PartialResultKept ==
    /\ [][NullPage =>
             /\ pc' = scr.caller
             /\ ret' = Value(DataFrame(scr.all_messages))
             /\ Len(ret'.val.rows) = scr.total_messages
             /\ scr'.all_messages = scr.all_messages
             /\ rlo' = RloIdle]_vars
    /\ []((pc = "halt" /\ scr.history = Null) =>
             /\ ret.val.rows = scr.all_messages
             /\ Descending(ret.val.rows)
             /\ ~ ENABLED NextScrape)

\* one page of 100 messages was received, the request of the second page
\* came back None, and the 100 records are returned
C21_Witness ==
    /\ pc = "halt"
    /\ scr.history = Null
    /\ scr.limit = 150
    /\ scr.total_messages = 100
    /\ Len(ret.val.rows) = 100
    /\ ret.val.rows[1].id = 250
    /\ ret.val.rows[100].id = 151

\* The invoker has let an exception of the wrapped operation through.
Raised == pc # "rlo" /\ rlo.result.kind = "raise"

\* C22: an exception of the wrapped operation that is neither a flood-wait
\* nor a server/timeout error leaves the invoker in the step in which it is
\* raised: that call is the last one of the invocation, no sleep is done for
\* it, and the caller gets that exception.
C22_OtherExceptionPropagates ==
    /\ [][(pc = "rlo" /\ ret'.kind = "raise") =>
             /\ pc' = rlo.caller
             /\ rlo'.calls = rlo.calls + 1
             /\ rlo'.sleeps = rlo.sleeps
             /\ rlo'.retry = rlo.retry
             /\ rlo'.result = ret']_vars
    /\ [](Raised =>
             /\ ret = rlo.result
             /\ rlo.calls = Len(rlo.sleeps) + 1
             /\ ~ ENABLED RloCall)

\* the lookup of the channel raised "not found" on the third call, after a
\* flood-wait and a transient error
C22_Witness ==
    /\ pc = "scr_entity"
    /\ ret = Raise("UsernameNotOccupiedError")
    /\ rlo.op = "get_entity"
    /\ rlo.calls = 3
    /\ Len(rlo.sleeps) = 2
    /\ rlo.sleeps[1].sig = "flood"
    /\ rlo.sleeps[2].sig = "transient"

\* C16: every except clause of the fetcher that caught an exception (the
\* one of the sender lookup included) has emitted a log record before the
\* fetcher went on.
C16_EveryCatchLogs ==
    scr.caught \subseteq scr.logged

----------------------------------------------------------------------------
(* Claims about process_channel (checked under SpecProcess)                *)

StageName(k) == <<"Fetch", "Search", "Download", "Monitor">>[k]

Rank(stage) ==
    CASE stage = "ResolveInfo" -> 0
      [] stage = "Fetch" -> 1
      [] stage = "Search" -> 2
      [] stage = "Download" -> 3
      [] stage = "Monitor" -> 4

Started(stage) == \E i \in 1..Len(proc.stages) : proc.stages[i] = stage

\* process_channel has returned to the caller of the specification.
Returned == pc = "halt"

\* C5: when the channel info was resolved, a failure inside a stage or inside
\* the export after it counts as that stage producing nothing, so once
\* process_channel has returned every stage whose option is set has run.
C5_LaterStagesRun ==
    (Returned /\ proc.channel_info.kind = "value") =>
        /\ input.options.scrape_messages => Started("Fetch")
        /\ input.options.search_query # "" => Started("Search")
        /\ input.options.download_media => Started("Download")
        /\ input.options.monitor => Started("Monitor")

\* The frame of the stage that runs is the one started last; the frames of
\* the other stages are idle.
OneStageAtATime ==
    LET last == proc.stages[Len(proc.stages)]
    IN  /\ info # InfoIdle => last = "ResolveInfo"
        /\ scr # ScrIdle => last = "Fetch"
        /\ srch # SrchIdle => last = "Search"
        /\ dl # DlIdle => last = "Download"
        /\ mon # MonIdle => last = "Monitor"

\* The points of process_channel at which the stage before has returned.
StageReturned ==
    pc \in {"proc_info", "proc_scraped", "proc_searched", "proc_downloaded"}

\* C6: the stages of a channel start in the order ResolveInfo, Fetch,
\* Search, Download, Monitor; a stage starts only at the return of the stage
\* before it (or past the skipped ones), no stage starts twice, and a stage
\* whose option is off never starts.
C6_FixedStageOrder ==
    /\ [](/\ Len(proc.stages) >= 1
          /\ proc.stages[1] = "ResolveInfo"
          /\ \A i, j \in 1..Len(proc.stages) :
                i < j => Rank(proc.stages[i]) < Rank(proc.stages[j])
          /\ Started("Fetch") => input.options.scrape_messages
          /\ Started("Search") => input.options.search_query # ""
          /\ Started("Download") => input.options.download_media
          /\ Started("Monitor") => input.options.monitor
          /\ OneStageAtATime)
    /\ [][proc'.stages # proc.stages =>
             /\ StageReturned
             /\ Len(proc'.stages) = Len(proc.stages) + 1
             /\ SubSeq(proc'.stages, 1, Len(proc.stages)) = proc.stages]_vars

\* the fetch and the search were skipped, the download and the monitor ran
C6_Witness ==
    /\ Returned
    /\ ret.val.ok
    /\ ~ input.options.scrape_messages
    /\ input.options.search_query = ""
    /\ proc.stages = <<"ResolveInfo", "Download", "Monitor">>

\* get_channel_info is about to return after its lookup failed.
InfoFailed == pc = "info_entity" /\ ret.kind \in {"raise", "null"}

\* C7: when get_channel_info fails (not found, None from the invoker after
\* its retries, or any other exception) it hands None to process_channel,
\* which returns False at once: no stage after ResolveInfo starts and no
\* artifact is written.
C7_NoInfoAborts ==
    /\ [](proc.channel_info.kind = "null" =>
            /\ Returned
            /\ ret = False
            /\ proc.stages = <<"ResolveInfo">>
            /\ scr = ScrIdle /\ srch = SrchIdle /\ dl = DlIdle /\ mon = MonIdle
            /\ handlers = <<>>
            /\ artifacts = {})
    /\ [][/\ InfoFailed => pc' = "proc_info" /\ ret' = Null
          /\ (pc = "proc_info" /\ ret = Null) =>
                proc'.channel_info.kind = "null"]_vars

\* every stage is switched on and the channel info could not be resolved
C7_Witness ==
    /\ Returned
    /\ ret = False
    /\ proc.channel_info.kind = "null"
    /\ proc.stages = <<"ResolveInfo">>
    /\ input.options.scrape_messages
    /\ input.options.search_query # ""
    /\ input.options.download_media
    /\ input.options.monitor

----------------------------------------------------------------------------
(* Claims about main (checked under Spec)                                  *)

\* C8: once the connection is established, process_channel is invoked for
\* every channel of the list, in list order, whatever failed before: a run
\* that has ended has processed the whole list.
C8_EveryChannelProcessed ==
    (pc = "halt" /\ mn.status # "not connected") =>
        /\ Len(mn.processed) = Len(input.channels)
        /\ \A i \in 1..Len(mn.processed) :
              mn.processed[i].channel = input.channels[i]

\* the files under output/ written for a file name prefix
Exports(filename_prefix) == {f \in artifacts : f.path.prefix = filename_prefix}

\* C11: a run that got past the connection leaves one info table with one
\* row per channel whose info was resolved, and for every channel that
\* process_channel handled with success one message export, with the
\* messages of that channel.
C11_TableAndExports ==
    (pc = "halt" /\ mn.status # "not connected") =>
        /\ mn.channel_info_list # <<>> =>
              \E f \in artifacts :
                 /\ Exports([channel |-> <<>>,
                             suffix |-> "all_channels_info"]) = {f}
                 /\ f.rows = mn.channel_info_list
        /\ \A i \in 1..Len(mn.processed) :
              mn.processed[i].ok =>
                 \E f \in artifacts :
                    /\ Exports([channel |-> mn.processed[i].channel,
                                suffix |-> "messages"]) = {f}
                    /\ \A k \in 1..Len(f.rows) :
                          f.rows[k].channel = StripAt(mn.processed[i].channel)

----------------------------------------------------------------------------
(* Claims about download_media_from_channel (checked under SpecProcess)    *)

\* The messages with an attachment among the newest `limit` of M messages.
MediaAmong(M, limit) ==
    {id \in (M - Min(M, limit) + 1)..M : HasMedia(id)}

\* C12: when the download of a resolved channel has returned, every message
\* with an attachment among the newest `limit` messages was counted once, as
\* downloaded or as skipped, whatever downloads failed.
C12_EveryAttachmentCounted ==
    (pc = "proc_downloaded" /\ dl.channel.ok) =>
        dl.downloaded + dl.skipped =
            Cardinality(MediaAmong(world.history[dl.channel_username],
                                   dl.limit))

\* The folder name and the handle it was made from.
FolderName == dl.channel_folder.sub
Handle == input.channel_username

\* C13 as stated: the folder name is the handle with every character outside
\* [A-Za-z0-9_-] replaced by '_' and every other character kept.
C13_AsciiSanitized ==
    /\ Len(FolderName) = Len(Handle)
    /\ \A i \in 1..Len(Handle) :
          FolderName[i] =
              IF IsAsciiWord(Handle[i]) \/ Handle[i] = "-"
              THEN Handle[i] ELSE "_"

\* C13 amended: the folder name has the length of the handle as given (its
\* leading '@' included); a character is kept when it is a letter or a
\* digit of any script, '_' or '-', and is replaced by '_' otherwise.
C13_WordSanitized ==
    /\ Len(FolderName) = Len(Handle)
    /\ \A i \in 1..Len(Handle) :
          /\ FolderName[i] \in {Handle[i], "_"}
          /\ FolderName[i] = Handle[i] <=>
                Handle[i] \in AsciiAlnum \cup OtherAlnum \cup {"_", "-"}
    /\ Handle = <<"c", "h", "a", "n", " ", "n", "e", "l", "!">> =>
          FolderName = <<"c", "h", "a", "n", "_", "n", "e", "l", "_">>

\* a handle with '@' in front and a letter outside ASCII
C13_Witness ==
    /\ pc = "halt"
    /\ Handle = <<"@", "e-acute">>
    /\ FolderName = <<"_", "e-acute">>
    /\ dl.channel_username = <<"e-acute">>

\* The handles main has resolved to an entity in its first loop.
ResolvedByMain ==
    {mn.channel_info_list[i].username : i \in 1..Len(mn.channel_info_list)}

\* The remote answers a get_entity call with the entity of the handle.
Resolves ==
    /\ pc = "rlo"
    /\ rlo.op = "get_entity"
    /\ pc' = rlo.caller
    /\ ret'.kind = "value"

\* C18: within one run a handle is resolved through the remote at most
\* once: no get_entity call is answered for a handle whose entity the run
\* has already got in its first loop.
C18_ResolvedAtMostOnce ==
    [][Resolves => rlo.arg.username \notin ResolvedByMain]_vars

----------------------------------------------------------------------------
(* Claims about monitor_channel (checked under SpecProcess)                *)

\* C9: whenever monitor_channel is not running, no callback of it is
\* registered with the client, and no line is logged for an event that
\* arrives when it is not running.
C9_HandlerGoneOnReturn ==
    /\ pc # "mon_sleep" => handlers = <<>>
    /\ \A i \in 1..Len(monlog) : monlog[i].monitoring

\* C17: a line logged by the callback of a running monitor is about a new
\* message in the channel that monitor was started for, whatever the
\* resolution of the channel gave.
C17_OnlyMonitoredChannel ==
    \A i \in 1..Len(monlog) :
        monlog[i].monitoring => monlog[i].chat = monlog[i].channel_username

----------------------------------------------------------------------------
(* Claims about export_data (checked under SpecExport)                     *)

\* C10: export_data called with no records returns None and writes nothing;
\* every file under output/ holds at least one data row, a call writes at
\* most one file, and the file it writes holds exactly the K records of the
\* batch it was called with.
C10_NoEmptyArtifact ==
    /\ [](\A f \in artifacts : Len(f.rows) >= 1)
    /\ [][/\ input'.data.rows = <<>> =>
                ret' = Null /\ artifacts' = artifacts
          /\ \A f \in artifacts' \ artifacts :
                /\ f.rows = input'.data.rows
                /\ Len(f.rows) = Len(input'.data.rows)
                /\ ret' = Value([file_path |-> f.path])
          /\ Cardinality(artifacts' \ artifacts) <= 1]_vars

====
